---- MODULE Spec2Model ----
(***************************************************************************)
(* A model of pgraph.py (Python 2: the __metaclass__ hook of Pipe wraps    *)
(* every concrete run method).  One Pipeline, one FlowPool and one Config  *)
(* are followed through repeated calls of Pipeline.run.  The computation   *)
(* of a concrete pipe is the environment: any sequence of read_flow,       *)
(* write_flow and get_config calls, any of which may raise; the body may   *)
(* catch an exception or let it propagate, and may raise on its own.       *)
(***************************************************************************)
EXTENDS Integers, Sequences, FiniteSets, TLC

\* ------------------------------------------------------------------ bounds
MaxPipes == 2      \* longest pipeline
MaxOps == 4        \* calls (read_flow, write_flow, get_config, a wrapped run) made by
                   \* computations and the host in one behaviour
MaxCompose == 5    \* pipes held by all the Pipeline objects that >> has built
MaxDepth == 1      \* wrapped runs suspended in a call of another wrapped run

\* ------------------------------------------------------------- input sets
Pipes == {"P1", "P2"}
FlowNames == {"a", "b"}
FlowVals == {1, 6}
ConfNames == {"x", "y"}
Operands == Pipes \cup {"P3", "NotAPipe"}   \* what may stand on either side of >>

VARIABLES
  pipes,        \* Pipeline.pipes
  flow_map,     \* FlowPool.flow_map
  read_cache,   \* FlowPool._read_cache
  write_cache,  \* FlowPool._write_cache
  config_map,   \* Config.config_map
  cache,        \* Config._cache
  input_flow,   \* Pipe.input_flow, per pipe
  output_flow,  \* Pipe.output_flow, per pipe
  config_used,  \* Pipe.config_used, per pipe
  pc,           \* "host": no run active; "loop": in Pipeline.run between pipes;
                \* "body": inside the wrapped run of pipes[idx]
  idx,          \* position of the for loop of Pipeline.run
  exc,          \* an exception is in flight inside the computation
  result,       \* how the last Pipeline.run ended: "none", "returned", "raised"
  supplied,     \* the running_flow_pool argument of the run was not None
  nops,         \* calls made so far by computations and the host: store accesses
                \* and wrapped runs
  last,         \* the store access made by the step just taken, and what it gave
  acc,          \* history: names read (r), names written (w), settings got (c)
                \* and the names of the settings in the order got (g), with
                \* success, since the current invocation was entered
  calls,        \* history: the pipes Pipeline.run has invoked in this run, in order
  entry,        \* history: provenance of pipes[idx] when its invocation began
  expect,       \* history: the pool's initial map with every successful write
                \* applied to it in order
  heap,         \* the Pipeline objects built by >>, each its pipes list
  ret,          \* the last >> evaluated: its operands, and the index into heap
                \* of the Pipeline it returned
  file,         \* the config.json of the directory: whether it exists, its content
  fresh,        \* a second Config instance: whether it was made, its config_map
  start_from,   \* the start_from argument of the last Config(...) evaluated
  stack,        \* the wrapped runs suspended in a call of another wrapped run
  lost          \* history: the tracking (r, w, c) thrown away by the last
                \* pop_cache pair that began an invocation, the pipe (by) whose
                \* invocation it was and how that invocation has ended (back),
                \* until the invocation of pipes[idx] ends

vars == <<pipes, flow_map, read_cache, write_cache, config_map, cache,
          input_flow, output_flow, config_used, pc, idx, exc, result,
          supplied, nops, last, acc, calls, entry, expect,
          heap, ret, file, fresh, start_from, stack, lost>>

pool == <<flow_map, read_cache, write_cache>>
conf == <<config_map, cache>>
prov == <<input_flow, output_flow, config_used>>
ctl == <<pc, idx, exc, result, supplied>>
comp == <<heap, ret>>
disk == <<file, fresh, start_from>>
nest == <<stack, lost>>

\* ----------------------------------------------------------------- helpers
EmptyMap == [k \in {} |-> 0]

\* d[k] = v of a Python dict
Put(d, k, v) == [j \in DOMAIN d \cup {k} |-> IF j = k THEN v ELSE d[j]]

\* x in list
InList(x, s) == \E i \in 1..Len(s) : s[i] = x

NoAccess == [op |-> "none", name |-> "", val |-> 0, ow |-> FALSE, err |-> "ok", ret |-> 0]

NoAcc == [r |-> <<>>, w |-> <<>>, c |-> EmptyMap, g |-> <<>>]

NoLost == [r |-> <<>>, w |-> <<>>, c |-> EmptyMap, by |-> "", back |-> "no"]

\* ---------------------------------------------------------------- FlowPool
\* FlowPool.__init__
NewFlowPool == [flow_map |-> EmptyMap, read_cache |-> <<>>, write_cache |-> <<>>]

\* a pop_cache that hands the lists out but forgets to replace them
FlowPopCache_NoReset(rc, wc) ==
  [out |-> [read_cache |-> rc, write_cache |-> wc], read_cache |-> rc, write_cache |-> wc]

\* FlowPool.pop_cache: the dict returned (out) and the lists left in the pool
FlowPopCache(rc, wc) ==
  [out |-> [read_cache |-> rc, write_cache |-> wc], read_cache |-> <<>>, write_cache |-> <<>>]

\* a read_flow without the read-once check
ReadError_NoReadCheck(fm, rc, wc, n) ==
  IF n \notin DOMAIN fm THEN "NoSuchFlow"
  ELSE IF InList(n, wc) THEN "ReadAfterWrite"
  ELSE "ok"

\* a read_flow without the read-after-write check
ReadError_NoWriteCheck(fm, rc, wc, n) ==
  IF n \notin DOMAIN fm THEN "NoSuchFlow"
  ELSE IF InList(n, rc) THEN "AlreadyRead"
  ELSE "ok"

\* the checks of FlowPool.read_flow, in order
ReadError(fm, rc, wc, n) ==
  IF n \notin DOMAIN fm THEN "NoSuchFlow"
  ELSE IF InList(n, rc) THEN "AlreadyRead"
  ELSE IF InList(n, wc) THEN "ReadAfterWrite"
  ELSE "ok"

\* a write_flow whose write-once check gives way to overwrite=True
WriteError_OverwriteWins(fm, wc, n, ow) ==
  IF n \in DOMAIN fm /\ ~ow THEN "AlreadyExists"
  ELSE IF InList(n, wc) /\ ~ow THEN "AlreadyWritten"
  ELSE "ok"

\* a write_flow that refuses every existing name
WriteError_NoOverwrite(fm, wc, n, ow) ==
  IF n \in DOMAIN fm THEN "AlreadyExists"
  ELSE IF InList(n, wc) THEN "AlreadyWritten"
  ELSE "ok"

\* the checks of FlowPool.write_flow, in order
WriteError(fm, wc, n, ow) ==
  IF n \in DOMAIN fm /\ ~ow THEN "AlreadyExists"
  ELSE IF InList(n, wc) THEN "AlreadyWritten"
  ELSE "ok"

\* self.flow_map.setdefault(flow_name, flow_content)
Store_KeepOld(fm, n, v) == IF n \in DOMAIN fm THEN fm ELSE Put(fm, n, v)

\* self.flow_map[flow_name] = flow_content
Store(fm, n, v) == Put(fm, n, v)

\* ------------------------------------------------------------------ Config
\* Config.pop_cache: the dict returned (out) and the dict left in the Config
ConfigPopCache(c) == [out |-> [read_cache |-> c], cache |-> EmptyMap]

GetError(cm, c) == IF c \notin DOMAIN cm THEN "NoSuchConfig" ELSE "ok"

\* a get_config that takes the setting out of config_map (dict.pop)
ConfigGet_Consume(cm, ca, c) ==
  IF GetError(cm, c) = "ok"
  THEN [err |-> "ok", ret |-> cm[c], config_map |-> [j \in DOMAIN cm \ {c} |-> cm[j]],
        cache |-> Put(ca, c, cm[c])]
  ELSE [err |-> GetError(cm, c), ret |-> 0, config_map |-> cm, cache |-> ca]

\* a get_config that records a name only the first time and refuses a repeat
ConfigGet_Once(cm, ca, c) ==
  IF GetError(cm, c) = "ok" /\ c \notin DOMAIN ca
  THEN [err |-> "ok", ret |-> cm[c], config_map |-> cm, cache |-> Put(ca, c, cm[c])]
  ELSE [err |-> "NoSuchConfig", ret |-> 0, config_map |-> cm, cache |-> ca]

\* Config.get_config: the outcome, the value returned, and the two dicts after
ConfigGet(cm, ca, c) ==
  IF GetError(cm, c) = "ok"
  THEN [err |-> "ok", ret |-> cm[c], config_map |-> cm, cache |-> Put(ca, c, cm[c])]
  ELSE [err |-> GetError(cm, c), ret |-> 0, config_map |-> cm, cache |-> ca]

\* -------------------------------------------------------------------- Init
\* Pipeline(P1), FlowPool(), Config(cm), and pipes P1, P2 just constructed
Start(cm) ==
  /\ pipes = <<"P1">>
  /\ flow_map = NewFlowPool.flow_map
  /\ read_cache = NewFlowPool.read_cache
  /\ write_cache = NewFlowPool.write_cache
  /\ config_map = cm
  /\ cache = EmptyMap
  /\ input_flow = [p \in Pipes |-> <<>>]
  /\ output_flow = [p \in Pipes |-> <<>>]
  /\ config_used = [p \in Pipes |-> EmptyMap]
  /\ pc = "host"
  /\ idx = 0
  /\ exc = FALSE
  /\ result = "none"
  /\ supplied = FALSE
  /\ nops = 0
  /\ last = NoAccess
  /\ acc = NoAcc
  /\ calls = <<>>
  /\ entry = <<>>
  /\ expect = EmptyMap
  /\ heap = <<>>
  /\ ret = [op |-> "none", pipe |-> "", obj |-> 0, other |-> "", err |-> "ok", val |-> 0]
  /\ file = [exists |-> FALSE, content |-> EmptyMap]
  /\ fresh = [made |-> FALSE, config_map |-> EmptyMap]
  /\ start_from = EmptyMap
  /\ stack = <<>>
  /\ lost = NoLost

\* ... with Config({"x": 5})
Init == Start([c \in {"x"} |-> 5])

\* ------------------------------------------------------------- composition
\* isinstance(x, Pipe)
IsPipe(x) == x \in Pipes \cup {"P3"}

\* Pipeline.__init__: self.pipes = list(args)
NewPipeline(args) == args

\* a >> that puts the new pipe first
RshiftList_Prepend(ps, q) == <<q>> \o ps

\* self.pipes.append(other)
RshiftList(ps, q) == Append(ps, q)

\* Pipeline.__rshift__ on the pipeline that Pipeline.run runs
PipelineRshift(q) ==
  /\ pc = "host"
  /\ Len(pipes) < MaxPipes
  /\ pipes' = RshiftList(pipes, q)
  /\ UNCHANGED <<comp, disk, nest, pool, conf, prov, ctl, nops, last, acc, calls, entry, expect>>

\* ------------------------------------------------------------ Pipeline.run
\* entry of Pipeline.run: a new FlowPool unless one is passed in
PipelineRun(given) ==
  /\ pc = "host"
  /\ nops < MaxOps
  /\ supplied' = given
  /\ IF given THEN UNCHANGED <<pool, expect>>
     ELSE /\ flow_map' = NewFlowPool.flow_map
          /\ read_cache' = NewFlowPool.read_cache
          /\ write_cache' = NewFlowPool.write_cache
          /\ expect' = EmptyMap
  /\ pc' = "loop"
  /\ idx' = 1
  /\ result' = "none"
  /\ last' = NoAccess
  /\ acc' = NoAcc
  /\ calls' = <<>>
  /\ entry' = <<>>
  /\ UNCHANGED <<comp, disk, nest, pipes, conf, prov, exc, nops>>

\* the for loop reaches pipes[idx]: the wrapper pops both caches, drops what
\* they held, and calls the computation
Invoke ==
  /\ pc = "loop"
  /\ idx <= Len(pipes)
  /\ LET f == FlowPopCache(read_cache, write_cache)
         g == ConfigPopCache(cache)
     IN /\ read_cache' = f.read_cache
        /\ write_cache' = f.write_cache
        /\ cache' = g.cache
  /\ pc' = "body"
  /\ last' = NoAccess
  /\ acc' = NoAcc
  /\ calls' = Append(calls, pipes[idx])
  /\ entry' = <<input_flow[pipes[idx]], output_flow[pipes[idx]], config_used[pipes[idx]]>>
  /\ lost' = [r |-> read_cache, w |-> write_cache, c |-> cache, by |-> pipes[idx], back |-> "no"]
  /\ UNCHANGED <<comp, disk, stack, pipes, flow_map, config_map, prov, idx, exc, result, supplied,
                 nops, expect>>

\* the for loop is exhausted: return running_flow_pool
RunReturn ==
  /\ pc = "loop"
  /\ idx > Len(pipes)
  /\ pc' = "host"
  /\ result' = "returned"
  /\ last' = NoAccess
  /\ UNCHANGED <<comp, disk, nest, pipes, pool, conf, prov, idx, exc, supplied, nops,
                 acc, calls, entry, expect>>

\* ------------------------------------------------- the computation's calls
ReadFlow(n) ==
  /\ pc = "body" /\ ~exc /\ nops < MaxOps
  /\ nops' = nops + 1
  /\ LET e == ReadError(flow_map, read_cache, write_cache, n) IN
       IF e = "ok"
       THEN /\ read_cache' = Append(read_cache, n)
            /\ last' = [op |-> "read_flow", name |-> n, val |-> 0, ow |-> FALSE,
                        err |-> "ok", ret |-> flow_map[n]]
            /\ acc' = [acc EXCEPT !.r = Append(@, n)]
            /\ UNCHANGED exc
       ELSE /\ last' = [op |-> "read_flow", name |-> n, val |-> 0, ow |-> FALSE,
                        err |-> e, ret |-> 0]
            /\ exc' = TRUE
            /\ UNCHANGED <<read_cache, acc>>
  /\ UNCHANGED <<comp, disk, nest, pipes, flow_map, write_cache, conf, prov, pc, idx, result,
                 supplied, calls, entry, expect>>

WriteFlow(n, v, ow) ==
  /\ pc = "body" /\ ~exc /\ nops < MaxOps
  /\ nops' = nops + 1
  /\ LET e == WriteError(flow_map, write_cache, n, ow) IN
       /\ last' = [op |-> "write_flow", name |-> n, val |-> v, ow |-> ow,
                   err |-> e, ret |-> 0]
       /\ IF e = "ok"
          THEN /\ write_cache' = Append(write_cache, n)
               /\ flow_map' = Store(flow_map, n, v)
               /\ acc' = [acc EXCEPT !.w = Append(@, n)]
               /\ expect' = Put(expect, n, v)
               /\ UNCHANGED exc
          ELSE /\ exc' = TRUE
               /\ UNCHANGED <<flow_map, write_cache, acc, expect>>
  /\ UNCHANGED <<comp, disk, nest, pipes, read_cache, conf, prov, pc, idx, result, supplied,
                 calls, entry>>

GetConfig(c) ==
  /\ pc = "body" /\ ~exc /\ nops < MaxOps
  /\ nops' = nops + 1
  /\ LET g == ConfigGet(config_map, cache, c) IN
       /\ config_map' = g.config_map
       /\ cache' = g.cache
       /\ last' = [op |-> "get_config", name |-> c, val |-> 0, ow |-> FALSE,
                   err |-> g.err, ret |-> g.ret]
       /\ IF g.err = "ok"
          THEN /\ acc' = [acc EXCEPT !.c = Put(@, c, config_map[c]), !.g = Append(@, c)]
               /\ UNCHANGED exc
          ELSE /\ exc' = TRUE
               /\ UNCHANGED acc
  /\ UNCHANGED <<comp, disk, nest, pipes, pool, prov, pc, idx, result, supplied,
                 calls, entry, expect>>

\* the computation raises on its own (Pipe.run itself: NotImplementedError)
BodyRaise ==
  /\ pc = "body" /\ ~exc
  /\ exc' = TRUE
  /\ last' = NoAccess
  /\ UNCHANGED <<comp, disk, nest, pipes, pool, conf, prov, pc, idx, result, supplied, nops,
                 acc, calls, entry, expect>>

\* the computation catches the exception and goes on
BodyCatch ==
  /\ pc = "body" /\ exc
  /\ exc' = FALSE
  /\ last' = NoAccess
  /\ UNCHANGED <<comp, disk, nest, pipes, pool, conf, prov, pc, idx, result, supplied, nops,
                 acc, calls, entry, expect>>

\* a wrapper that harvests in a finally clause
Propagate_Harvest ==
  /\ pc = "body" /\ exc /\ stack = <<>>
  /\ exc' = FALSE
  /\ pc' = "host"
  /\ result' = "raised"
  /\ last' = NoAccess
  /\ input_flow' = [input_flow EXCEPT ![pipes[idx]] = read_cache]
  /\ output_flow' = [output_flow EXCEPT ![pipes[idx]] = write_cache]
  /\ config_used' = [config_used EXCEPT ![pipes[idx]] = cache]
  /\ read_cache' = <<>>
  /\ write_cache' = <<>>
  /\ cache' = EmptyMap
  /\ lost' = NoLost
  /\ UNCHANGED <<comp, disk, stack, pipes, flow_map, config_map, idx, supplied, nops, acc,
                 calls, entry, expect>>

\* a Pipeline.run that logs the failure and goes on with the next pipe
Propagate_Swallow ==
  /\ pc = "body" /\ exc /\ stack = <<>>
  /\ exc' = FALSE
  /\ pc' = "loop"
  /\ idx' = idx + 1
  /\ last' = NoAccess
  /\ lost' = NoLost
  /\ UNCHANGED <<comp, disk, stack, pipes, pool, conf, prov, result, supplied, nops, acc,
                 calls, entry, expect>>

\* a wrapper that rolls back on failure: the flows written in the failed
\* invocation are deleted and the tracking is cleared
Propagate_Rollback ==
  /\ pc = "body" /\ exc /\ stack = <<>>
  /\ exc' = FALSE
  /\ pc' = "host"
  /\ result' = "raised"
  /\ last' = NoAccess
  /\ flow_map' = [k \in {j \in DOMAIN flow_map : ~InList(j, write_cache)} |-> flow_map[k]]
  /\ read_cache' = <<>>
  /\ write_cache' = <<>>
  /\ cache' = EmptyMap
  /\ lost' = NoLost
  /\ UNCHANGED <<comp, disk, stack, pipes, config_map, prov, idx, supplied, nops, acc,
                 calls, entry, expect>>

\* the exception leaves func(*args, **kwargs): nothing after it in the wrapper
\* runs, and nothing in Pipeline.run catches it
Propagate ==
  /\ pc = "body" /\ exc /\ stack = <<>>
  /\ exc' = FALSE
  /\ pc' = "host"
  /\ result' = "raised"
  /\ last' = NoAccess
  /\ lost' = NoLost
  /\ UNCHANGED <<comp, disk, stack, pipes, pool, conf, prov, idx, supplied, nops, acc,
                 calls, entry, expect>>

\* a loop that runs the pipe it just ran once more
BodyReturn_Again ==
  /\ pc = "body" /\ ~exc /\ stack = <<>>
  /\ LET f == FlowPopCache(read_cache, write_cache)
         g == ConfigPopCache(cache)
     IN /\ read_cache' = f.read_cache
        /\ write_cache' = f.write_cache
        /\ cache' = g.cache
        /\ input_flow' = [input_flow EXCEPT ![pipes[idx]] = f.out.read_cache]
        /\ output_flow' = [output_flow EXCEPT ![pipes[idx]] = f.out.write_cache]
        /\ config_used' = [config_used EXCEPT ![pipes[idx]] = g.out.read_cache]
  /\ idx' = IF Len(calls) < idx + 1 THEN idx ELSE idx + 1
  /\ pc' = "loop"
  /\ last' = NoAccess
  /\ lost' = NoLost
  /\ UNCHANGED <<comp, disk, stack, pipes, flow_map, config_map, exc, result, supplied, nops,
                 acc, calls, entry, expect>>

\* the computation returns: the wrapper pops both caches again and stores what
\* they held on the pipe; the for loop moves on
BodyReturn ==
  /\ pc = "body" /\ ~exc /\ stack = <<>>
  /\ LET f == FlowPopCache(read_cache, write_cache)
         g == ConfigPopCache(cache)
     IN /\ read_cache' = f.read_cache
        /\ write_cache' = f.write_cache
        /\ cache' = g.cache
        /\ input_flow' = [input_flow EXCEPT ![pipes[idx]] = f.out.read_cache]
        /\ output_flow' = [output_flow EXCEPT ![pipes[idx]] = f.out.write_cache]
        /\ config_used' = [config_used EXCEPT ![pipes[idx]] = g.out.read_cache]
  /\ idx' = idx + 1
  /\ pc' = "loop"
  /\ last' = NoAccess
  /\ lost' = NoLost
  /\ UNCHANGED <<comp, disk, stack, pipes, flow_map, config_map, exc, result, supplied, nops,
                 acc, calls, entry, expect>>

Next ==
  \/ \E q \in Pipes : PipelineRshift(q)
  \/ \E g \in BOOLEAN : PipelineRun(g)
  \/ Invoke
  \/ RunReturn
  \/ \E n \in FlowNames : ReadFlow(n)
  \/ \E n \in FlowNames, v \in FlowVals, ow \in BOOLEAN : WriteFlow(n, v, ow)
  \/ \E c \in ConfNames : GetConfig(c)
  \/ BodyRaise
  \/ BodyCatch
  \/ Propagate
  \/ BodyReturn

Spec == Init /\ [][Next]_vars

\* ----------------------------------------------- composition, with identity
\* the pipes held by the Pipeline objects h[1..k]
RECURSIVE Held(_, _)
Held(h, k) == IF k = 0 THEN 0 ELSE Len(h[k]) + Held(h, k - 1)

\* Pipe.__rshift__: p >> q is a new Pipeline(p, q)
PipeRshift(p, q) ==
  /\ pc = "host"
  /\ IsPipe(p)
  /\ Held(heap, Len(heap)) + 2 <= MaxCompose
  /\ IF IsPipe(q)
     THEN /\ heap' = Append(heap, NewPipeline(<<p, q>>))
          /\ ret' = [op |-> "Pipe", pipe |-> p, obj |-> 0, other |-> q,
                     err |-> "ok", val |-> Len(heap) + 1]
     ELSE /\ ret' = [op |-> "Pipe", pipe |-> p, obj |-> 0, other |-> q,
                     err |-> "AssertionError", val |-> 0]
          /\ UNCHANGED heap
  /\ UNCHANGED <<pipes, pool, conf, prov, ctl, nops, last, acc, calls, entry,
                 expect, disk, nest>>

\* Pipeline.__rshift__ on the Pipeline object heap[k]: append, return self
PipelineRshiftAt(k, q) ==
  /\ pc = "host"
  /\ k \in 1..Len(heap)
  /\ Held(heap, Len(heap)) + 1 <= MaxCompose
  /\ IF IsPipe(q)
     THEN /\ heap' = [heap EXCEPT ![k] = RshiftList(@, q)]
          /\ ret' = [op |-> "Pipeline", pipe |-> "", obj |-> k, other |-> q,
                     err |-> "ok", val |-> k]
     ELSE /\ ret' = [op |-> "Pipeline", pipe |-> "", obj |-> k, other |-> q,
                     err |-> "AssertionError", val |-> 0]
          /\ UNCHANGED heap
  /\ UNCHANGED <<pipes, pool, conf, prov, ctl, nops, last, acc, calls, entry,
                 expect, disk, nest>>

NextCompose ==
  \/ \E p \in Operands, q \in Operands : PipeRshift(p, q)
  \/ \E k \in 1..Len(heap), q \in Operands : PipelineRshiftAt(k, q)

SpecCompose == Init /\ [][NextCompose]_vars

\* ------------------------------------------- Config: construction and disk
\* the Python 2 types a setting value may have, and one value of each
ValueTypes == {"int", "long", "float", "str", "unicode", "list", "dict"}

Sample(t) ==
  CASE t = "int" -> "5"
    [] t = "long" -> "2**70"
    [] t = "float" -> "2.5"
    [] t = "str" -> "'abc'"
    [] t = "unicode" -> "u'abc'"
    [] t = "list" -> "[1]"
    [] t = "dict" -> "{'k': 1}"

Values == {[t |-> ty, v |-> Sample(ty)] : ty \in ValueTypes}

\* the dicts handed to Config(...) and the records put on disk by other means
Settings ==
  {EmptyMap} \cup {[c \in {"x"} |-> v] : v \in Values}
             \cup {[c \in ConfNames |-> IF c = "x" THEN [t |-> "int", v |-> Sample("int")] ELSE v] :
                     v \in Values}

\* assert type(self.config_map[k]) in (int, float, str), for every k
CheckType(m) ==
  IF \A k \in DOMAIN m : m[k].t \in {"int", "float", "str"} THEN "ok" ELSE "AssertionError"

\* json.dump of one value: the JSON text written for it
JsonOf(x) ==
  CASE x.t \in {"int", "long"} -> [j |-> "number", v |-> IF x.t = "long" THEN "1180591620717411303424" ELSE x.v]
    [] x.t = "float" -> [j |-> "real", v |-> x.v]
    [] x.t \in {"str", "unicode"} -> [j |-> "string", v |-> "abc"]
    [] x.t = "list" -> [j |-> "array", v |-> "[1]"]
    [] x.t = "dict" -> [j |-> "object", v |-> "{k: 1}"]

\* json.dump(self.config_map, f)
JsonDump(m) == [k \in DOMAIN m |-> JsonOf(m[k])]

\* what json.load makes of one JSON value read from a file object
PyOf(y) ==
  CASE y.j = "number" -> IF y.v = "5" THEN [t |-> "int", v |-> "5"] ELSE [t |-> "long", v |-> "2**70"]
    [] y.j = "real" -> [t |-> "float", v |-> y.v]
    [] y.j = "string" -> [t |-> "unicode", v |-> "u'abc'"]
    [] y.j = "array" -> [t |-> "list", v |-> "[1]"]
    [] y.j = "object" -> [t |-> "dict", v |-> "{'k': 1}"]

\* json.load(fp, ...): fp.read() is parsed; a str has no read()
JsonLoad(fp) ==
  IF fp.kind = "file"
  THEN [err |-> "ok", val |-> [k \in DOMAIN fp.content |-> PyOf(fp.content[k])]]
  ELSE [err |-> "AttributeError", val |-> EmptyMap]

\* Python's == on two setting values: equal values, or 'abc' and u'abc'
SameValue(x, y) ==
  \/ x = y
  \/ x.t \in {"str", "unicode"} /\ y.t \in {"str", "unicode"}

\* Python's == on two dicts of settings
SameMap(a, b) ==
  /\ DOMAIN a = DOMAIN b
  /\ \A k \in DOMAIN a : SameValue(a[k], b[k])

ConfigOp(op, err) == [op |-> op, name |-> "", val |-> 0, ow |-> FALSE, err |-> err, ret |-> 0]

\* Config(m): config_map is bound, _check_type asserts, _cache is made; when
\* the assertion fails no Config comes into being and the old one stays
Construct(m) ==
  /\ pc = "host"
  /\ start_from' = m
  /\ last' = ConfigOp("Config", CheckType(m))
  /\ IF CheckType(m) = "ok"
     THEN config_map' = m /\ cache' = EmptyMap
     ELSE UNCHANGED <<config_map, cache>>
  /\ UNCHANGED <<pipes, pool, prov, ctl, nops, acc, calls, entry, expect, comp,
                 file, fresh, nest>>

\* Config(): a second instance, with an empty config_map
ConstructFresh ==
  /\ pc = "host"
  /\ fresh' = [made |-> TRUE, config_map |-> EmptyMap]
  /\ last' = ConfigOp("Config()", CheckType(EmptyMap))
  /\ UNCHANGED <<pipes, pool, conf, prov, ctl, nops, acc, calls, entry, expect,
                 comp, file, start_from, nest>>

\* Config.serialize_to(target_dir)
SerializeTo ==
  /\ pc = "host"
  /\ file' = [exists |-> TRUE, content |-> JsonDump(config_map)]
  /\ last' = ConfigOp("serialize_to", "ok")
  /\ UNCHANGED <<pipes, pool, conf, prov, ctl, nops, acc, calls, entry, expect,
                 comp, fresh, start_from, nest>>

\* a config.json put in the directory by other means
WriteFile(m) ==
  /\ pc = "host"
  /\ file' = [exists |-> TRUE, content |-> JsonDump(m)]
  /\ last' = ConfigOp("none", "ok")
  /\ UNCHANGED <<pipes, pool, conf, prov, ctl, nops, acc, calls, entry, expect,
                 comp, fresh, start_from, nest>>

\* Config.serialize_from(source_dir) on the second instance:
\* self.config_map = json.load(os.path.join(...), 'rb'), the path itself
SerializeFrom ==
  /\ pc = "host"
  /\ fresh.made
  /\ LET r == JsonLoad([kind |-> "str", content |-> file.content]) IN
       /\ last' = ConfigOp("serialize_from", r.err)
       /\ fresh' = IF r.err = "ok" THEN [fresh EXCEPT !.config_map = r.val] ELSE fresh
  /\ UNCHANGED <<pipes, pool, conf, prov, ctl, nops, acc, calls, entry, expect,
                 comp, file, start_from, nest>>

NextConfig ==
  \/ \E m \in Settings : Construct(m)
  \/ ConstructFresh
  \/ SerializeTo
  \/ \E m \in Settings : WriteFile(m)
  \/ SerializeFrom

\* Config() and the rest just constructed
InitConfig == Start(EmptyMap)

SpecConfig == InitConfig /\ [][NextConfig]_vars

\* ------------------------------------- access from outside any computation
\* pool.read_flow(n) called by the host, which catches what it raises
DirectRead(n) ==
  /\ pc = "host" /\ nops < MaxOps
  /\ nops' = nops + 1
  /\ LET e == ReadError(flow_map, read_cache, write_cache, n) IN
       /\ last' = [op |-> "read_flow", name |-> n, val |-> 0, ow |-> FALSE,
                   err |-> e, ret |-> IF e = "ok" THEN flow_map[n] ELSE 0]
       /\ read_cache' = IF e = "ok" THEN Append(read_cache, n) ELSE read_cache
  /\ UNCHANGED <<pipes, flow_map, write_cache, conf, prov, ctl, acc, calls, entry,
                 expect, comp, disk, nest>>

\* pool.write_flow(n, v, ow) called by the host
DirectWrite(n, v, ow) ==
  /\ pc = "host" /\ nops < MaxOps
  /\ nops' = nops + 1
  /\ LET e == WriteError(flow_map, write_cache, n, ow) IN
       /\ last' = [op |-> "write_flow", name |-> n, val |-> v, ow |-> ow,
                   err |-> e, ret |-> 0]
       /\ IF e = "ok"
          THEN /\ write_cache' = Append(write_cache, n)
               /\ flow_map' = Store(flow_map, n, v)
               /\ expect' = Put(expect, n, v)
          ELSE UNCHANGED <<flow_map, write_cache, expect>>
  /\ UNCHANGED <<pipes, read_cache, conf, prov, ctl, acc, calls, entry, comp, disk, nest>>

\* config.get_config(c) called by the host
DirectGet(c) ==
  /\ pc = "host" /\ nops < MaxOps
  /\ nops' = nops + 1
  /\ LET g == ConfigGet(config_map, cache, c) IN
       /\ config_map' = g.config_map
       /\ cache' = g.cache
       /\ last' = [op |-> "get_config", name |-> c, val |-> 0, ow |-> FALSE,
                   err |-> g.err, ret |-> g.ret]
  /\ UNCHANGED <<pipes, pool, prov, ctl, acc, calls, entry, expect, comp, disk, nest>>

\* runs of the one-pipe pipeline, with accesses by the host between them
NextDirect ==
  \/ \E n \in FlowNames : DirectRead(n)
  \/ \E n \in FlowNames, v \in FlowVals, ow \in BOOLEAN : DirectWrite(n, v, ow)
  \/ \E c \in ConfNames : DirectGet(c)
  \/ \E g \in BOOLEAN : PipelineRun(g)
  \/ Invoke
  \/ RunReturn
  \/ \E n \in FlowNames : ReadFlow(n)
  \/ \E n \in FlowNames, v \in FlowVals, ow \in BOOLEAN : WriteFlow(n, v, ow)
  \/ \E c \in ConfNames : GetConfig(c)
  \/ BodyRaise
  \/ BodyCatch
  \/ Propagate
  \/ BodyReturn

SpecDirect == Init /\ [][NextDirect]_vars

\* pool.pop_cache() called by the host
DirectPop ==
  /\ pc = "host"
  /\ LET f == FlowPopCache(read_cache, write_cache) IN
       /\ read_cache' = f.read_cache
       /\ write_cache' = f.write_cache
  /\ last' = [op |-> "pop_cache", name |-> "", val |-> 0, ow |-> FALSE,
              err |-> "ok", ret |-> 0]
  /\ UNCHANGED <<pipes, flow_map, conf, prov, ctl, nops, acc, calls, entry, expect,
                 comp, disk, nest>>

\* a FlowPool used on its own
NextPool ==
  \/ \E n \in FlowNames : DirectRead(n)
  \/ \E n \in FlowNames, v \in FlowVals, ow \in BOOLEAN : DirectWrite(n, v, ow)
  \/ DirectPop

SpecPool == Init /\ [][NextPool]_vars

\* ------------------------------------- a wrapped run called by a computation
\* the computation calls q.run(flow_pool=..., config=...) (q another pipe, or
\* the pipe itself for a parent class's run): q's wrapper pops both caches
NestedInvoke(q) ==
  /\ pc = "body" /\ ~exc /\ nops < MaxOps
  /\ Len(stack) < MaxDepth
  /\ nops' = nops + 1
  /\ LET f == FlowPopCache(read_cache, write_cache)
         g == ConfigPopCache(cache)
     IN /\ read_cache' = f.read_cache
        /\ write_cache' = f.write_cache
        /\ cache' = g.cache
  /\ stack' = Append(stack, q)
  /\ lost' = [r |-> read_cache, w |-> write_cache, c |-> cache, by |-> q, back |-> "no"]
  /\ acc' = NoAcc
  /\ last' = NoAccess
  /\ UNCHANGED <<pipes, flow_map, config_map, prov, ctl, calls, entry, expect,
                 comp, disk>>

\* the called run returns: its wrapper harvests into q and the caller goes on
NestedReturn ==
  /\ pc = "body" /\ ~exc
  /\ stack # <<>>
  /\ LET q == stack[Len(stack)]
         f == FlowPopCache(read_cache, write_cache)
         g == ConfigPopCache(cache)
     IN /\ read_cache' = f.read_cache
        /\ write_cache' = f.write_cache
        /\ cache' = g.cache
        /\ input_flow' = [input_flow EXCEPT ![q] = f.out.read_cache]
        /\ output_flow' = [output_flow EXCEPT ![q] = f.out.write_cache]
        /\ config_used' = [config_used EXCEPT ![q] = g.out.read_cache]
  /\ stack' = SubSeq(stack, 1, Len(stack) - 1)
  /\ lost' = [lost EXCEPT !.back = "returned"]
  /\ acc' = NoAcc
  /\ last' = NoAccess
  /\ UNCHANGED <<pipes, flow_map, config_map, ctl, nops, calls, entry, expect, comp, disk>>

\* the exception leaves the called run: it is now in flight in the caller
NestedFail ==
  /\ pc = "body" /\ exc
  /\ stack # <<>>
  /\ stack' = SubSeq(stack, 1, Len(stack) - 1)
  /\ lost' = [lost EXCEPT !.back = "raised"]
  /\ last' = NoAccess
  /\ UNCHANGED <<pipes, pool, conf, prov, ctl, nops, acc, calls, entry, expect, comp, disk>>

\* runs of the one-pipe pipeline whose computation may call wrapped runs
NextNested ==
  \/ \E g \in BOOLEAN : PipelineRun(g)
  \/ Invoke
  \/ RunReturn
  \/ \E n \in FlowNames : ReadFlow(n)
  \/ \E n \in FlowNames, v \in FlowVals, ow \in BOOLEAN : WriteFlow(n, v, ow)
  \/ \E c \in ConfNames : GetConfig(c)
  \/ BodyRaise
  \/ BodyCatch
  \/ \E q \in Pipes : NestedInvoke(q)
  \/ NestedReturn
  \/ NestedFail
  \/ Propagate
  \/ BodyReturn

SpecNested == Init /\ [][NextNested]_vars

\* ------------------------------------------------------------ observations
\* the provenance fields of pipe p
Provenance(p) == <<input_flow[p], output_flow[p], config_used[p]>>

\* an exception escapes the computation of pipes[idx] in this step
Fails == pc = "body" /\ exc /\ pc' # "body"

\* this step is a call of read_flow(n) / write_flow(n, ...) by the computation
ReadStep(n) == nops' = nops + 1 /\ last'.op = "read_flow" /\ last'.name = n
WriteStep(n) == nops' = nops + 1 /\ last'.op = "write_flow" /\ last'.name = n

\* ------------------------------------------------------------------ claims

C2_EmptyOutsideInvocation ==
  pc # "body" => (read_cache = <<>> /\ write_cache = <<>>)

\* C2 as amended: the read-set and the write-set are empty before anything has
\* run, when Pipeline.run starts on a new FlowPool, between two pipes of a
\* pipeline and after a pipe invocation has returned; after a pipe invocation
\* has failed they hold the names read and written before the failure, and
\* they still hold them when the next run is start_from that FlowPool.
C2_EmptyAfterReturn ==
  /\ (pc = "host" /\ result # "raised") => (read_cache = <<>> /\ write_cache = <<>>)
  /\ (pc = "loop" /\ (idx > 1 \/ ~supplied)) => (read_cache = <<>> /\ write_cache = <<>>)
  /\ (pc = "host" /\ result = "raised") => (read_cache = acc.r /\ write_cache = acc.w)

\* a pipe has returned after reading and writing, and the sets are empty again
C2_Witness ==
  /\ pc = "loop" /\ idx > 1
  /\ input_flow[pipes[idx - 1]] # <<>> /\ output_flow[pipes[idx - 1]] # <<>>
  /\ read_cache = <<>> /\ write_cache = <<>>

C4_FailureAbortsRun ==
  [][/\ Fails => (/\ pc' = "host" /\ result' = "raised"
                  /\ calls' = calls
                  /\ flow_map' = flow_map
                  /\ flow_map' = expect')
     /\ (pc = "host" /\ result = "raised")
          => (calls' = calls \/ (pc' = "loop" /\ idx' = 1 /\ calls' = <<>>))]_vars

\* the first of two pipes failed after a write: the second was never invoked
C4_Witness ==
  /\ pc = "host" /\ result = "raised"
  /\ Len(pipes) = 2 /\ idx = 1 /\ calls = <<pipes[1]>>
  /\ acc.w = <<"a">> /\ "a" \in DOMAIN flow_map

\* C5: a Pipeline.run in which every pipe succeeds starts on the FlowPool
\* start_from (a new empty one if none is start_from), invokes the pipes one at a time,
\* each after the one before it has returned, in list order and once each, and
\* returns with flow_map equal to the initial map with every write applied in
\* order.
C5_RunInOrder ==
  [][/\ (pc = "host" /\ pc' = "loop")
          => IF supplied' THEN UNCHANGED pool
             ELSE flow_map' = EmptyMap /\ read_cache' = <<>> /\ write_cache' = <<>>
     /\ (calls' # calls /\ calls' # <<>>)
          => (/\ pc = "loop" /\ pc' = "body"
              /\ Len(calls) = idx - 1
              /\ calls' = SubSeq(pipes, 1, idx))
     /\ (pc = "loop" /\ pc' = "host")
          => (/\ result' = "returned"
              /\ calls = pipes
              /\ flow_map' = expect')]_vars

\* the two-pipe example: P1 writes a=1 and gets x, P2 reads a and writes b=6
C5_Witness ==
  /\ pc = "host" /\ result = "returned" /\ ~supplied
  /\ pipes = <<"P1", "P2">> /\ calls = pipes
  /\ flow_map = [n \in {"a", "b"} |-> IF n = "a" THEN 1 ELSE 6]
  /\ output_flow["P1"] = <<"a">> /\ config_used["P1"] = [c \in {"x"} |-> 5]
  /\ input_flow["P2"] = <<"a">> /\ output_flow["P2"] = <<"b">>

\* C6: a read_flow of a name read with success earlier in the same invocation
\* fails with the read-once error and changes neither flow_map nor the read
\* and write sets; a read_flow of an existing name that is the invocation's
\* first access to it succeeds, whatever earlier invocations read.
C6_ReadOnce ==
  [][\A n \in FlowNames : ReadStep(n) =>
       /\ InList(n, acc.r)
            => (last'.err = "AlreadyRead" /\ exc' /\ UNCHANGED pool)
       /\ (n \in DOMAIN flow_map /\ ~InList(n, acc.r) /\ ~InList(n, acc.w))
            => (/\ last'.err = "ok" /\ ~exc'
                /\ read_cache' = Append(read_cache, n)
                /\ UNCHANGED <<flow_map, write_cache>>)]_vars

\* a name an earlier invocation had read is read again, and then once more
C6_Witness ==
  /\ last.op = "read_flow" /\ last.err = "AlreadyRead"
  /\ InList(last.name, acc.r)
  /\ \E p \in Pipes : InList(last.name, input_flow[p])

\* C7 as stated: a read_flow of a name written with success earlier in the
\* same invocation fails with the read-after-write error and leaves the
\* read-set as it was.
C7_ReadAfterWrite ==
  [][\A n \in FlowNames : (ReadStep(n) /\ InList(n, acc.w))
       => (last'.err = "ReadAfterWrite" /\ read_cache' = read_cache)]_vars

\* C7 as amended: a read_flow of a name written with success earlier in the
\* same invocation fails, whether or not the name existed before, and leaves
\* flow_map and both sets as they were; the error is the read-after-write
\* error unless the invocation had also read the name before writing it, and
\* then it is the read-once error.
C7_ReadAfterWriteFails ==
  [][\A n \in FlowNames : (ReadStep(n) /\ InList(n, acc.w))
       => (/\ last'.err = IF InList(n, acc.r) THEN "AlreadyRead" ELSE "ReadAfterWrite"
           /\ exc'
           /\ UNCHANGED pool)]_vars

\* a name created by this invocation is read back
C7_Witness ==
  /\ last.op = "read_flow" /\ last.err = "ReadAfterWrite"
  /\ InList(last.name, acc.w)
  /\ \A p \in Pipes : ~InList(last.name, output_flow[p])

C9_Overwrite ==
  [][\A n \in FlowNames : (WriteStep(n) /\ n \in DOMAIN flow_map) =>
       /\ ~last'.ow
            => (last'.err = "AlreadyExists" /\ exc' /\ UNCHANGED pool)
       /\ (last'.ow /\ ~InList(n, acc.w))
            => (/\ last'.err = "ok" /\ ~exc'
                /\ flow_map' = [flow_map EXCEPT ![n] = last'.val]
                /\ write_cache' = Append(write_cache, n)
                /\ read_cache' = read_cache)]_vars

\* the value an earlier invocation wrote is replaced by another one
C9_Witness ==
  /\ last.op = "write_flow" /\ last.err = "ok" /\ last.ow
  /\ \E p \in Pipes : InList(last.name, output_flow[p])
  /\ acc.w = <<last.name>>
  /\ flow_map[last.name] = last.val

\* C10: a read_flow of a name written in an earlier invocation, and neither
\* read nor written so far in this one, succeeds and returns the value written
\* last under that name.
C10_ReadsLatest ==
  [][\A n \in FlowNames :
       (ReadStep(n) /\ n \in DOMAIN expect /\ ~InList(n, acc.r) /\ ~InList(n, acc.w))
       => (last'.err = "ok" /\ ~exc' /\ last'.ret = expect[n])]_vars

\* a name written by two invocations is read by a third
C10_Witness ==
  /\ last.op = "read_flow" /\ last.err = "ok" /\ last.ret = 6
  /\ output_flow["P1"] = <<last.name>> /\ output_flow["P2"] = <<last.name>>
  /\ acc.r = <<last.name>> /\ acc.w = <<>>

\* s is an initial part of t
IsPrefix(s, t) == Len(s) <= Len(t) /\ SubSeq(t, 1, Len(s)) = s

\* C11: Pipe >> Pipe makes a new Pipeline holding exactly those two pipes in
\* that order and leaves every other Pipeline alone; Pipeline >> Pipe appends
\* the pipe at the end of that Pipeline and returns that same Pipeline; no >>
\* removes or reorders pipes a Pipeline already holds (so P1 >> P2 >> P3 is
\* one Pipeline holding P1, P2, P3 in that order).
C11_Composition ==
  [][/\ (ret'.op = "Pipe" /\ ret'.err = "ok" /\ (heap' # heap \/ ret' # ret))
          => (/\ heap' = Append(heap, <<ret'.pipe, ret'.other>>)
              /\ ret'.val = Len(heap'))
     /\ (ret'.op = "Pipeline" /\ ret'.err = "ok" /\ (heap' # heap \/ ret' # ret))
          => (/\ ret'.val = ret'.obj
              /\ Len(heap') = Len(heap)
              /\ heap'[ret'.obj] = Append(heap[ret'.obj], ret'.other)
              /\ \A k \in 1..Len(heap) : k # ret'.obj => heap'[k] = heap[k])
     /\ ret'.err # "ok" => heap' = heap
     /\ \A k \in 1..Len(heap) : k <= Len(heap') /\ IsPrefix(heap[k], heap'[k])]_vars

\* P1 >> P2 >> P3 has just been evaluated
C11_Witness ==
  /\ ret.op = "Pipeline" /\ ret.err = "ok" /\ ret.other = "P3"
  /\ heap[ret.val] = <<"P1", "P2", "P3">>

\* this step is a call of get_config by the computation
GetStep == nops' = nops + 1 /\ last'.op = "get_config"

\* the computation of pipes[idx] returns in this step
Returns == pc = "body" /\ ~exc /\ pc' # "body"

\* C12: no step of a pipeline run (a pipe's computation beginning, getting a
\* setting, reading or writing a flow, returning or failing; the pop_cache
\* calls of the wrapper) changes config_map: it stays what the Config was
\* constructed with.
C12_ConfigMapFrame ==
  /\ config_map = [c \in {"x"} |-> 5]
  /\ (last.op = "get_config" /\ last.err = "ok") => last.ret = config_map[last.name]

\* a setting has been got twice, harvested into the pipe, and a further
\* invocation has popped the cache again
C12_Witness ==
  /\ config_used["P1"] = [c \in {"x"} |-> 5]
  /\ acc.g = <<"x", "x">>
  /\ Len(calls) = 2 /\ pc = "body"
  /\ config_map = [c \in {"x"} |-> 5]

\* C13: get_config of a name that config_map does not hold fails with
\* NoSuchConfig and leaves the access cache as it was; get_config of a name it
\* holds returns the value and puts name -> value in the cache, also when the
\* name is in the cache already; the cache harvested when the computation
\* returns holds exactly the names got during the call, each with its value.
C13_GetConfig ==
  [][/\ (GetStep /\ last'.name \notin DOMAIN config_map)
          => (last'.err = "NoSuchConfig" /\ cache' = cache /\ exc')
     /\ (GetStep /\ last'.name \in DOMAIN config_map)
          => (/\ last'.err = "ok" /\ ~exc'
              /\ last'.ret = config_map[last'.name]
              /\ cache' = Put(cache, last'.name, config_map[last'.name]))
     /\ Returns
          => (/\ DOMAIN config_used'[pipes[idx]] = {acc.g[i] : i \in 1..Len(acc.g)}
              /\ \A c \in DOMAIN config_used'[pipes[idx]] :
                   config_used'[pipes[idx]][c] = config_map[c])]_vars

\* x was got twice in one call, which then returned: x is there once
C13_Witness ==
  /\ pc = "loop" /\ acc.g = <<"x", "x">>
  /\ config_used[calls[Len(calls)]] = [c \in {"x"} |-> 5]

\* C14: when serialize_from has just been called on a second Config and the
\* file in the directory is the one serialize_to wrote for the first Config,
\* the second Config's config_map equals the first one's.
C14_RoundTrip ==
  (last.op = "serialize_from" /\ file.exists /\ file.content = JsonDump(config_map))
    => SameMap(fresh.config_map, config_map)

\* C15: serialize_from ends as construction from the record read would end: it
\* fails when a setting is a list or a mapping, fails or succeeds as
\* _check_type would, and leaves no non-scalar setting in the Config.
C15_SameValidation ==
  (last.op = "serialize_from" /\ file.exists)
    => /\ last.err = CheckType(JsonLoad([kind |-> "file", content |-> file.content]).val)
       /\ \A k \in DOMAIN fresh.config_map : fresh.config_map[k].t \notin {"list", "dict"}

\* C16: Config(m) fails when a value of m is a list or a mapping, succeeds
\* when every value is an integer, a floating-point number or a string, and a
\* Config that exists holds no list and no mapping.
C16_Construction ==
  /\ \A k \in DOMAIN config_map : config_map[k].t \notin {"list", "dict"}
  /\ last.op = "Config" =>
       /\ (\E k \in DOMAIN start_from : start_from[k].t \in {"list", "dict"}) => last.err # "ok"
       /\ (\A k \in DOMAIN start_from : start_from[k].t \in {"int", "long", "float", "str", "unicode"})
            => last.err = "ok"

\* C17: when a computation fails, or an exception leaves a pipe invocation,
\* flow_map keeps every write applied before the failure and the read-set,
\* the write-set and the Config's access cache keep what was recorded before
\* it; outside a computation they change only when the next invocation
\* begins (or, for the pool, when a run makes itself a new FlowPool).
C17_NoRollback ==
  [][/\ (exc' \/ Fails)
          => (/\ flow_map' = expect'
              /\ read_cache' = acc'.r /\ write_cache' = acc'.w /\ cache' = acc'.c)
     /\ Fails => (flow_map' = flow_map /\ read_cache' = read_cache
                    /\ write_cache' = write_cache /\ cache' = cache)
     /\ (pc # "body" /\ cache' # cache) => pc' = "body"
     /\ (pc # "body" /\ <<flow_map, read_cache, write_cache>>' # <<flow_map, read_cache, write_cache>>)
          => (pc' = "body" \/ (pc = "host" /\ pc' = "loop" /\ ~supplied'))]_vars

\* a run has failed after its pipe read a, wrote b and got x: all of it is
\* still there
C17_Witness ==
  /\ pc = "host" /\ result = "raised"
  /\ read_cache = <<"a">> /\ write_cache = <<"b">> /\ cache = [c \in {"x"} |-> 5]
  /\ flow_map["b"] = 6

\* C18: the pop_cache pair that begins a pipe invocation leaves the read-set,
\* the write-set and the Config's access cache empty, whatever a failed
\* invocation or an access from outside a pipe left in them; so a once-only
\* failure inside an invocation is always about a name this invocation itself
\* read or wrote, and what the pipe holds at return is what this invocation
\* accessed.
C18_FreshTracking ==
  [][/\ (pc = "loop" /\ pc' = "body")
          => (read_cache' = <<>> /\ write_cache' = <<>> /\ cache' = EmptyMap)
     /\ (pc = "body" /\ nops' = nops + 1 /\ last'.err = "AlreadyRead")
          => InList(last'.name, acc.r)
     /\ (pc = "body" /\ nops' = nops + 1 /\ last'.err \in {"ReadAfterWrite", "AlreadyWritten"})
          => InList(last'.name, acc.w)
     /\ Returns => (/\ input_flow'[pipes[idx]] = acc.r
                     /\ output_flow'[pipes[idx]] = acc.w
                     /\ config_used'[pipes[idx]] = acc.c)]_vars

\* an invocation began while a was in the read-set and x in the access cache,
\* and has read a with success
C18_Witness ==
  /\ pc = "body" /\ lost.r = <<"a">> /\ lost.c = [c \in {"x"} |-> 5]
  /\ last.op = "read_flow" /\ last.name = "a" /\ last.err = "ok"
  /\ acc = [r |-> <<"a">>, w |-> <<>>, c |-> EmptyMap, g |-> <<>>]

\* no element of s occurs twice
NoDup(s) == \A i, j \in 1..Len(s) : s[i] = s[j] => i = j

\* C19: after every read_flow, write_flow or pop_cache on a FlowPool, failed
\* ones included, no name is twice in the read-set or twice in the write-set,
\* every name in either set is a key of flow_map, a name gets to be in both
\* sets only by a write of a name that is in the read-set already, and every
\* key of flow_map is still a key.
C19_PoolInvariants ==
  [][/\ NoDup(read_cache') /\ NoDup(write_cache')
     /\ \A n \in FlowNames :
          /\ (InList(n, read_cache') \/ InList(n, write_cache')) => n \in DOMAIN flow_map'
          /\ (/\ InList(n, read_cache') /\ InList(n, write_cache')
              /\ ~(InList(n, read_cache) /\ InList(n, write_cache)))
               => (/\ InList(n, read_cache) /\ read_cache' = read_cache
                   /\ last'.op = "write_flow" /\ last'.name = n /\ last'.err = "ok")
     /\ DOMAIN flow_map \subseteq DOMAIN flow_map']_vars

\* a was written, the sets were popped, a was read and then overwritten: a is
\* in both sets and still a key
C19_Witness ==
  /\ read_cache = <<"a">> /\ write_cache = <<"a">> /\ nops = 3
  /\ last.op = "write_flow" /\ last.name = "a" /\ last.err = "ok"
  /\ flow_map["a"] = last.val

\* C20: when a computation calls a wrapped run on the same FlowPool and
\* Config, that run's wrapper empties the read-set, the write-set and the
\* access cache; the called pipe gets what the called run accessed; a
\* once-only failure is then always about a name accessed since the last
\* such reset, so a name the caller read or wrote before the call can be read
\* or written again; and when the caller returns, its pipe holds only what
\* was accessed after the called run returned.
C20_NestedReset ==
  [][/\ Len(stack') > Len(stack)
          => (read_cache' = <<>> /\ write_cache' = <<>> /\ cache' = EmptyMap)
     /\ (Len(stack') < Len(stack) /\ ~exc)
          => (/\ input_flow'[stack[Len(stack)]] = acc.r
              /\ output_flow'[stack[Len(stack)]] = acc.w
              /\ config_used'[stack[Len(stack)]] = acc.c
              /\ read_cache' = <<>> /\ write_cache' = <<>> /\ cache' = EmptyMap)
     /\ (pc = "body" /\ nops' = nops + 1 /\ last'.err = "AlreadyRead")
          => InList(last'.name, acc.r)
     /\ (pc = "body" /\ nops' = nops + 1 /\ last'.err \in {"ReadAfterWrite", "AlreadyWritten"})
          => InList(last'.name, acc.w)
     /\ (Returns /\ lost.back = "returned")
          => (/\ input_flow'[pipes[idx]] = acc.r
              /\ output_flow'[pipes[idx]] = acc.w
              /\ config_used'[pipes[idx]] = acc.c)]_vars

\* P1 wrote a and called P2's run, which wrote a again and returned; P1 has
\* written a once more, with success
C20_Witness ==
  /\ pc = "body" /\ stack = <<>> /\ pipes[idx] = "P1"
  /\ lost.by = "P2" /\ lost.back = "returned" /\ lost.w = <<"a">>
  /\ output_flow["P2"] = <<"a">>
  /\ last.op = "write_flow" /\ last.name = "a" /\ last.err = "ok"
  /\ acc.w = <<"a">>

====
